---- MODULE Spec2Model ----
(***************************************************************************)
(* Stress accumulation and notification engine of the wellness backend:    *)
(*   backend/model_analyzer.py             (stress counter state machine)  *)
(*   backend/stress_notification_system.py (notification eligibility)      *)
(*   backend/report.py                     (report record creation)        *)
(* Text is a sequence of one-character strings.  Time is the wall clock in *)
(* minutes.                                                                *)
(***************************************************************************)
EXTENDS Integers, Sequences, FiniteSets, TLC

VARIABLES
    now,               \* wall clock, minutes (datetime.now())
    report,            \* table "report": id of each user with a row -> the row
    notification_log,  \* table "notification_log": sequence of rows
    ticks,             \* clock steps taken so far
    chk,               \* the check_user_stress evaluations: caller -> frame
    sweep,             \* the check_all_users call
    sess,              \* the sessions (analyze, then process_user)
    trk,               \* one call of process_stress_tracking
    tier,              \* one call of get_notification_message
    gen,               \* one call of generate_recommendations / parse_mood_and_stress
    hist               \* per user, the sessions run since the last Happy session completed

vars == <<now, ticks, report, notification_log, chk, sweep, sess, trk, tier, gen, hist>>

----------------------------------------------------------------------------
(* Bounds of the model *)

MaxStressLevel == 7    \* stress_level inputs 0..MaxStressLevel
MaxCurrent == 6        \* current_stress_day inputs of the tracking calls
MaxTierDay == 53       \* stress_day inputs of get_notification_message
MaxTicks == 5          \* clock steps per behaviour
MaxLog == 3            \* rows of notification_log
MaxStressDay == 5      \* sessions stop raising the counter here
MaxItems == 6          \* numbered items of a generated response
MaxLifeDay == 7        \* the counter's ceiling where sessions and evaluations are mixed
MaxCounted == 3        \* sessions counted since a Happy session, then no further

Users == {1, 2}

----------------------------------------------------------------------------
(* Text helpers: str.lower() *)

UpperLetters == <<"A", "B", "C", "D", "E", "F", "G", "H", "I", "J", "K", "L", "M",
                 "N", "O", "P", "Q", "R", "S", "T", "U", "V", "W", "X", "Y", "Z">>
LowerLetters == <<"a", "b", "c", "d", "e", "f", "g", "h", "i", "j", "k", "l", "m",
                 "n", "o", "p", "q", "r", "s", "t", "u", "v", "w", "x", "y", "z">>

LowerChar(c) ==
    IF \E i \in 1..Len(UpperLetters) : UpperLetters[i] = c
    THEN LowerLetters[CHOOSE i \in 1..Len(UpperLetters) : UpperLetters[i] = c]
    ELSE c

Lower(s) == [i \in 1..Len(s) |-> LowerChar(s[i])]

UpperChar(c) ==
    IF \E i \in 1..Len(LowerLetters) : LowerLetters[i] = c
    THEN UpperLetters[CHOOSE i \in 1..Len(LowerLetters) : LowerLetters[i] = c]
    ELSE c

\* str.capitalize()
Capitalize(s) == [i \in 1..Len(s) |-> IF i = 1 THEN UpperChar(s[i]) ELSE LowerChar(s[i])]

Digits == <<"0", "1", "2", "3", "4", "5", "6", "7", "8", "9">>

IsLetter(c) == \E i \in 1..Len(UpperLetters) : UpperLetters[i] = c \/ LowerLetters[i] = c
IsDigitChar(c) == \E i \in 1..Len(Digits) : Digits[i] = c
\* the ASCII characters that str.isspace() holds for: space, \t, \n, \r, \f,
\* \v (0x0b) and the separators 0x1c..0x1f
WhiteSpace == {" ", "\t", "\n", "\r", "\f", "", "", "", "", ""}

\* \w and \s of the re module, on the characters of the model; \s is also
\* what str.strip() removes
IsWordChar(c) == IsLetter(c) \/ IsDigitChar(c) \/ c = "_"
IsSpaceChar(c) == c \in WhiteSpace

DigitValue(c) == (CHOOSE i \in 1..Len(Digits) : Digits[i] = c) - 1

\* int() of a run of digits
RECURSIVE ToInt(_)
ToInt(ds) ==
    IF ds = <<>> THEN 0
    ELSE 10 * ToInt(SubSeq(ds, 1, Len(ds) - 1)) + DigitValue(ds[Len(ds)])

\* pat occurs in s at index i
OccursAt(s, i, pat) ==
    /\ i + Len(pat) - 1 <= Len(s)
    /\ \A k \in 1..Len(pat) : s[i + k - 1] = pat[k]

happy == <<"h", "a", "p", "p", "y">>

\* The moods handed to process_stress_tracking
Moods == { <<"H", "a", "p", "p", "y">>,
           happy,
           <<"H", "A", "P", "P", "Y">>,
           <<"h", "A", "p", "P", "y">>,
           <<"H", "a", "p", "p">>,
           <<"S", "a", "d">>,
           <<"S", "A", "D">>,
           <<>> }

----------------------------------------------------------------------------
(* ModelAnalyzer.process_stress_tracking *)

None == "None"
\* the alert texts, without their leading emoji
RESET_ALERT == "Great mood! Your stress counter has been reset."
HIGH_ALERT == "HIGH STRESS ALERT: You have high stress level! Please consider taking a break and practicing relaxation techniques."
MODERATE_ALERT == "STRESS ALERT: You have stress! Consider taking some time for self-care activities."

IsHappy_CaseSensitive(mood) == mood = happy

\* mood.lower() == "happy"
IsHappy(mood) == Lower(mood) = happy

NewStressDay_SameStep(mood, stress_level, current_stress_day) ==
    IF IsHappy(mood) THEN 0
    ELSE IF stress_level = 3 THEN current_stress_day + 1
    ELSE IF stress_level \in {4, 5} THEN current_stress_day + 1
    ELSE current_stress_day

NewStressDay_TripleStep(mood, stress_level, current_stress_day) ==
    IF IsHappy(mood) THEN 0
    ELSE IF stress_level = 3 THEN current_stress_day + 1
    ELSE IF stress_level \in {4, 5} THEN current_stress_day + 3
    ELSE current_stress_day

NewStressDay_ResetBelow(mood, stress_level, current_stress_day) ==
    IF IsHappy(mood) THEN -1
    ELSE IF stress_level = 3 THEN current_stress_day + 1
    ELSE IF stress_level \in {4, 5} THEN current_stress_day + 2
    ELSE current_stress_day

NewStressDay(mood, stress_level, current_stress_day) ==
    IF IsHappy(mood) THEN 0
    ELSE IF stress_level = 3 THEN current_stress_day + 1
    ELSE IF stress_level \in {4, 5} THEN current_stress_day + 2
    ELSE current_stress_day

StressAlert_Strict(mood, new_stress_day) ==
    IF IsHappy(mood) THEN RESET_ALERT
    ELSE IF new_stress_day > 5 THEN HIGH_ALERT
    ELSE IF new_stress_day > 4 THEN MODERATE_ALERT
    ELSE None

StressAlert(mood, new_stress_day) ==
    IF IsHappy(mood) THEN RESET_ALERT
    ELSE IF new_stress_day >= 5 THEN HIGH_ALERT
    ELSE IF new_stress_day >= 4 THEN MODERATE_ALERT
    ELSE None

ShouldWrite_Always(new_stress_day, current_stress_day) == TRUE

\* if new_stress_day != current_stress_day: self.update_stress_day(...)
ShouldWrite(new_stress_day, current_stress_day) == new_stress_day # current_stress_day

\* the returned pair, and whether update_stress_day is called
process_stress_tracking(mood, stress_level, current_stress_day) ==
    LET new_stress_day == NewStressDay(mood, stress_level, current_stress_day)
    IN [new_stress_day |-> new_stress_day,
        stress_alert |-> StressAlert(mood, new_stress_day),
        update |-> ShouldWrite(new_stress_day, current_stress_day)]

----------------------------------------------------------------------------
(* StressNotificationSystem.get_notification_message *)

\* STRESS_MESSAGES, level_3 without its leading emoji
LEVEL_1_MESSAGES == <<"Calm down yourself - take a moment to breathe",
                      "Take a deep breath - inhale peace, exhale stress",
                      "Take a glass of water - stay hydrated and refreshed">>
LEVEL_2_MESSAGE == "You are stressed for a long time. Get time and make rest. Your well-being matters."
LEVEL_3_MESSAGE == "HIGH STRESS ALERT: Please consider visiting a doctor. Your health is important."

NoNotification == [notification_type |-> None, message |-> None, priority |-> None]

get_notification_message_Inclusive(stress_day, choice) ==
    IF stress_day >= 50
    THEN [notification_type |-> "level_3", message |-> LEVEL_3_MESSAGE, priority |-> "critical"]
    ELSE IF stress_day >= 10
    THEN [notification_type |-> "level_2", message |-> LEVEL_2_MESSAGE, priority |-> "high"]
    ELSE IF stress_day >= 5
    THEN [notification_type |-> "level_1", message |-> LEVEL_1_MESSAGES[choice], priority |-> "moderate"]
    ELSE NoNotification

\* choice is the index random.choice draws
get_notification_message(stress_day, choice) ==
    IF stress_day > 50
    THEN [notification_type |-> "level_3", message |-> LEVEL_3_MESSAGE, priority |-> "critical"]
    ELSE IF stress_day > 10
    THEN [notification_type |-> "level_2", message |-> LEVEL_2_MESSAGE, priority |-> "high"]
    ELSE IF stress_day > 5
    THEN [notification_type |-> "level_1", message |-> LEVEL_1_MESSAGES[choice], priority |-> "moderate"]
    ELSE NoNotification

----------------------------------------------------------------------------
(* Wall clock *)

MINUTES_PER_HOUR == 60
HOURS_PER_DAY == 24
WINDOW_START == 7
WINDOW_END == 9
COOLDOWN_HOURS == 2

\* datetime.hour
Hour(t) == (t \div MINUTES_PER_HOUR) % HOURS_PER_DAY

\* timedelta(hours=2)
Cooldown == COOLDOWN_HOURS * MINUTES_PER_HOUR

is_notification_time_Late(t) == WINDOW_START <= Hour(t) /\ Hour(t) <= WINDOW_END

\* is_notification_time, t the value datetime.now() returns
is_notification_time(t) == WINDOW_START <= Hour(t) /\ Hour(t) < WINDOW_END

\* the clock moves in steps of half an hour
HalfHour == MINUTES_PER_HOUR \div 2

Tick ==
    /\ ticks < MaxTicks
    /\ now' = now + HalfHour
    /\ ticks' = ticks + 1
    /\ UNCHANGED <<report, notification_log, chk, sweep, sess, trk, tier, gen, hist>>

----------------------------------------------------------------------------
(* parse_mood_and_stress: the two re.search calls *)

MOOD_KEY == <<"m", "o", "o", "d", ":">>
STRESS_KEY == <<"s", "t", "r", "e", "s", "s", "_", "l", "e", "v", "e", "l", ":">>
Unknown == <<"U", "n", "k", "n", "o", "w", "n">>

\* re.IGNORECASE against a lower-case pattern
IgnoreCase(s) == Lower(s)

\* \s* from index i: the first index that holds no white space
AfterSpaces(s, i) ==
    CHOOSE j \in i..(Len(s) + 1) :
        /\ j = Len(s) + 1 \/ ~IsSpaceChar(s[j])
        /\ \A k \in i..(j - 1) : IsSpaceChar(s[k])

\* the character class of a group: "w" is \w, "d" is \d
InClass(class, c) == IF class = "w" THEN IsWordChar(c) ELSE IsDigitChar(c)

\* greedy (\w+) or (\d+) from index j: the last index of the run
RunEnd(s, j, class) ==
    CHOOSE e \in j..Len(s) :
        /\ e = Len(s) \/ ~InClass(class, s[e + 1])
        /\ \A k \in j..e : InClass(class, s[k])

\* key\s*(class+) matches with the key at index i
MatchesAt(s, i, key, class) ==
    /\ i + Len(key) - 1 <= Len(s)
    /\ IgnoreCase(SubSeq(s, i, i + Len(key) - 1)) = key
    /\ LET j == AfterSpaces(s, i + Len(key))
       IN j <= Len(s) /\ InClass(class, s[j])

\* re.search: the leftmost match and its group
re_search(s, key, class) ==
    IF \E i \in 1..Len(s) : MatchesAt(s, i, key, class)
    THEN LET i == CHOOSE i \in 1..Len(s) :
                      /\ MatchesAt(s, i, key, class)
                      /\ \A k \in 1..(i - 1) : ~MatchesAt(s, k, key, class)
             j == AfterSpaces(s, i + Len(key))
         IN [found |-> TRUE, group |-> SubSeq(s, j, RunEnd(s, j, class))]
    ELSE [found |-> FALSE, group |-> <<>>]

\* int() raises ValueError on a string of more digits than this
INT_MAX_STR_DIGITS == 4300

\* is_str FALSE: response_text is not a string (None), re.search raises and
\* the except branch returns the defaults; so does int() on a stress_level of
\* more than INT_MAX_STR_DIGITS digits, and the mood that matched is dropped
parse_mood_and_stress(response_text, is_str) ==
    IF ~is_str
    THEN [mood |-> Unknown, stress_level |-> 0]
    ELSE LET mood_match == re_search(response_text, MOOD_KEY, "w")
             stress_match == re_search(response_text, STRESS_KEY, "d")
         IN IF stress_match.found /\ Len(stress_match.group) > INT_MAX_STR_DIGITS
            THEN [mood |-> Unknown, stress_level |-> 0]
            ELSE [mood |-> IF mood_match.found THEN Capitalize(mood_match.group)
                           ELSE Unknown,
                  stress_level |-> IF stress_match.found THEN ToInt(stress_match.group)
                                   ELSE 0]

----------------------------------------------------------------------------
(* generate_recommendations: cleaning and validating the response text *)

MIN_RESPONSE_LENGTH == 20
RECOMMENDATIONS == 5

NEWLINE == "\n"

\* str.split('\n')
RECURSIVE Split(_)
Split(text) ==
    IF \E i \in 1..Len(text) : text[i] = NEWLINE
    THEN LET i == CHOOSE i \in 1..Len(text) :
                      text[i] = NEWLINE /\ \A k \in 1..(i - 1) : text[k] # NEWLINE
         IN <<SubSeq(text, 1, i - 1)>> \o Split(SubSeq(text, i + 1, Len(text)))
    ELSE <<text>>

\* '\n'.join(lines)
RECURSIVE Join(_)
Join(lines) ==
    IF lines = <<>> THEN <<>>
    ELSE IF Len(lines) = 1 THEN lines[1]
    ELSE lines[1] \o <<NEWLINE>> \o Join(Tail(lines))

\* str.strip()
Strip(s) ==
    IF \A i \in 1..Len(s) : IsSpaceChar(s[i])
    THEN <<>>
    ELSE LET a == CHOOSE i \in 1..Len(s) :
                      ~IsSpaceChar(s[i]) /\ \A k \in 1..(i - 1) : IsSpaceChar(s[k])
             b == CHOOSE i \in 1..Len(s) :
                      ~IsSpaceChar(s[i]) /\ \A k \in (i + 1)..Len(s) : IsSpaceChar(s[k])
         IN SubSeq(s, a, b)

\* pat in s
Contains(s, pat) == \E i \in 1..(Len(s) + 1) : OccursAt(s, i, pat)

\* stripped.startswith(f'{i}.') or startswith(f'{i} -') or startswith(f'{i})')
StartsItem(stripped, i) ==
    \/ OccursAt(stripped, 1, <<Digits[i + 1], ".">>)
    \/ OccursAt(stripped, 1, <<Digits[i + 1], " ", "-">>)
    \/ OccursAt(stripped, 1, <<Digits[i + 1], ")">>)

\* 'mood:' in stripped.lower() or 'stress_level:' in stripped.lower()
IsMoodLine(line) ==
    \/ Contains(Lower(Strip(line)), MOOD_KEY)
    \/ Contains(Lower(Strip(line)), STRESS_KEY)

\* the first loop over the lines: the mood line, then the first line that
\* starts item 1, where the loop breaks
RECURSIVE FirstLoop(_, _, _, _)
FirstLoop(lines, k, mood_line_found, clean_lines) ==
    IF k > Len(lines) THEN clean_lines
    ELSE IF ~mood_line_found /\ IsMoodLine(lines[k])
    THEN FirstLoop(lines, k + 1, TRUE, Append(clean_lines, lines[k]))
    ELSE IF mood_line_found /\ StartsItem(Strip(lines[k]), 1)
    THEN Append(clean_lines, lines[k])
    ELSE FirstLoop(lines, k + 1, mood_line_found, clean_lines)

\* the lines of clean_lines that start one of the items 1..5
NumberedCount(clean_lines) ==
    Cardinality({k \in 1..Len(clean_lines) :
                    \E i \in 1..RECOMMENDATIONS : StartsItem(Strip(clean_lines[k]), i)})

\* the second loop over the lines: every line after the first line that
\* starts item 1, until clean_lines holds 5 numbered lines
RECURSIVE SecondLoop(_, _, _, _)
SecondLoop(lines, k, start_adding, clean_lines) ==
    IF k > Len(lines) THEN clean_lines
    ELSE IF start_adding
    THEN LET added == Append(clean_lines, lines[k])
         IN IF NumberedCount(added) >= RECOMMENDATIONS
            THEN added
            ELSE SecondLoop(lines, k + 1, TRUE, added)
    ELSE IF StartsItem(Strip(lines[k]), 1)
    THEN SecondLoop(lines, k + 1, TRUE, clean_lines)
    ELSE SecondLoop(lines, k + 1, FALSE, clean_lines)

\* the cleaned response_text; the response itself when no line was kept
CleanResponse(response_text) ==
    LET lines == Split(response_text)
        clean_lines == SecondLoop(lines, 1, FALSE, FirstLoop(lines, 1, FALSE, <<>>))
    IN IF clean_lines # <<>> THEN Strip(Join(clean_lines)) ELSE response_text

INSUFFICIENT_OUTPUT ==
    <<"M", "o", "o", "d", ":", " ", "N", "e", "u", "t", "r", "a", "l", ",", " ", "s", "t", "r", "e", "s", "s", "_", "l", "e", "v", "e", "l", ":", " ", "0", "\n",
    "E", "r", "r", "o", "r", ":", " ", "M", "o", "d", "e", "l", " ", "g", "e", "n", "e", "r", "a", "t", "e", "d", " ", "i", "n", "s", "u", "f", "f", "i", "c", "i", "e", "n", "t", " ", "o", "u", "t", "p", "u", "t", ".", " ", "P", "l", "e", "a", "s", "e", " ", "t", "r", "y", " ", "a", "g", "a", "i", "n", ".">>

\* if not response_text or len(response_text) < 20
Validate(response_text) ==
    IF response_text = <<>> \/ Len(response_text) < MIN_RESPONSE_LENGTH
    THEN INSUFFICIENT_OUTPUT
    ELSE response_text

\* generate_recommendations when invoke_model returned response_text
generate_recommendations(response_text) == Validate(CleanResponse(response_text))

ERROR_PREFIX == <<"M", "o", "o", "d", ":", " ", "N", "e", "u", "t", "r", "a", "l", ",", " ", "s", "t", "r", "e", "s", "s", "_", "l", "e", "v", "e", "l", ":", " ", "0", "\n", "E", "r", "r", "o", "r", ":", " ">>
UNEXPECTED == <<"A", "n", " ", "u", "n", "e", "x", "p", "e", "c", "t", "e", "d", " ", "e", "r", "r", "o", "r", " ", "o", "c", "c", "u", "r", "r", "e", "d", " ", "-", " ">>

GenerationFailed_MessageFirst(client_error, error_msg) ==
    error_msg \o <<NEWLINE>> \o ERROR_PREFIX

\* generate_recommendations when invoke_model raised: ClientError with its
\* message, or any other exception with str(e)
GenerationFailed(client_error, error_msg) ==
    IF client_error
    THEN ERROR_PREFIX \o error_msg
    ELSE ERROR_PREFIX \o UNEXPECTED \o error_msg

----------------------------------------------------------------------------
(* Idle values of the parts a specification does not drive *)

IdleFrame == [pc |-> "idle", user |-> 0, stress_day |-> 0,
              notification_type |-> None, message |-> None, priority |-> None,
              status |-> None, log0 |-> 0, t_window |-> 0,
              found |-> FALSE, last_sent |-> 0, t_decide |-> 0,
              sent_at |-> 0,
              lookup_failed |-> FALSE, insert_failed |-> FALSE]
IdleSweep == [pc |-> "idle", pending |-> <<>>, results |-> <<>>,
              total_users |-> 0, notifications_sent |-> 0, status |-> None]
IdleTrk == [pc |-> "idle", mood |-> <<>>, stress_level |-> 0, current_stress_day |-> 0,
            new_stress_day |-> 0, stress_alert |-> None, update |-> FALSE,
            user |-> 0, write_failed |-> FALSE]
IdleTier == [pc |-> "idle", stress_day |-> 0, choice |-> 1, result |-> NoNotification]
\* response: what the generation collaborator returned; text, is_str: what
\* generate_recommendations returned; parts: how the input was put together
IdleGen == [pc |-> "idle", response |-> <<>>, text |-> <<>>, is_str |-> TRUE,
            mood |-> <<>>, stress_level |-> 0, parts |-> <<>>]

\* written, done: non-Happy sessions with stress_level >= 3 that have made their
\* process_stress_tracking call / have completed since the last Happy session
\* completed (-1: no Happy session yet); running: kind of the session under way
NoHistory == [u \in Users |-> [written |-> -1, done |-> -1, running |-> "none"]]

Callers == {"api", "sweep"}
Sessions == {"s1", "s2"}
\* current_none: fetch_user_data returned None for current_stress_day
IdleSession == [pc |-> "idle", user |-> 0, current_stress_day |-> 0,
                current_none |-> FALSE,
                new_stress_day |-> 0, stress_alert |-> None]

----------------------------------------------------------------------------
(* The store write of the counter *)

UpdateStressDay_Increment(table, user_id, new_stress_day) ==
    IF user_id \in DOMAIN table
    THEN [table EXCEPT ![user_id].stress_day =
              IF new_stress_day = 0 THEN 0 ELSE @ + 1]
    ELSE table

\* update_stress_day: update(...).eq('id', user_id) changes the rows that exist
UpdateStressDay(table, user_id, new_stress_day) ==
    IF user_id \in DOMAIN table
    THEN [table EXCEPT ![user_id].stress_day = new_stress_day]
    ELSE table

UpdateStressDayFails_Applied(table, user_id, new_stress_day) ==
    UpdateStressDay(table, user_id, new_stress_day)

\* update_stress_day when the store call raises: the except branch returns
\* False and the table is as it was
UpdateStressDayFails(table, user_id, new_stress_day) == table

----------------------------------------------------------------------------
(* One call of process_stress_tracking on any mood, stress_level and       *)
(* current_stress_day                                                      *)

InitTrack ==
    /\ now = 0 /\ ticks = 0
    /\ report = <<>>
    /\ notification_log = <<>>
    /\ chk = [c \in Callers |-> IdleFrame]
    /\ sweep = IdleSweep
    /\ sess = [s \in Sessions |-> IdleSession]
    /\ hist = NoHistory
    /\ gen = IdleGen
    /\ tier = IdleTier
    /\ \E m \in Moods, l \in 0..MaxStressLevel, c \in 0..MaxCurrent :
          trk = [IdleTrk EXCEPT !.pc = "call", !.mood = m, !.stress_level = l,
                                !.current_stress_day = c]

TrackCall ==
    /\ trk.pc = "call"
    /\ LET r == process_stress_tracking(trk.mood, trk.stress_level, trk.current_stress_day)
       IN trk' = [trk EXCEPT !.pc = "returned",
                             !.new_stress_day = r.new_stress_day,
                             !.stress_alert = r.stress_alert,
                             !.update = r.update]
    /\ UNCHANGED <<now, ticks, report, notification_log, chk, sweep, sess, tier, gen, hist>>

SpecTrack == InitTrack /\ [][TrackCall]_vars

----------------------------------------------------------------------------
(* The same call with its store write: the report row of the user holds    *)
(* current_stress_day when the call starts                                 *)

InitTrackStore ==
    /\ now = 0 /\ ticks = 0
    /\ notification_log = <<>>
    /\ chk = [c \in Callers |-> IdleFrame]
    /\ sweep = IdleSweep
    /\ sess = [s \in Sessions |-> IdleSession]
    /\ hist = NoHistory
    /\ gen = IdleGen
    /\ tier = IdleTier
    /\ \E m \in Moods, l \in 0..MaxStressLevel, c \in 0..MaxCurrent, u \in Users :
          /\ trk = [IdleTrk EXCEPT !.pc = "call", !.mood = m, !.stress_level = l,
                                   !.current_stress_day = c, !.user = u]
          /\ report = [v \in Users |-> [stress_day |-> c]]

\* process_stress_tracking; update_stress_day succeeds when it is called
TrackCallStore ==
    /\ trk.pc = "call"
    /\ LET r == process_stress_tracking(trk.mood, trk.stress_level, trk.current_stress_day)
       IN /\ trk' = [trk EXCEPT !.pc = "returned",
                                !.new_stress_day = r.new_stress_day,
                                !.stress_alert = r.stress_alert,
                                !.update = r.update]
          /\ report' = IF r.update
                       THEN UpdateStressDay(report, trk.user, r.new_stress_day)
                       ELSE report
    /\ UNCHANGED <<now, ticks, notification_log, chk, sweep, sess, tier, gen, hist>>

\* process_stress_tracking; update_stress_day is called and its store call raises
TrackCallWriteFails ==
    /\ trk.pc = "call"
    /\ LET r == process_stress_tracking(trk.mood, trk.stress_level, trk.current_stress_day)
       IN /\ r.update
          /\ trk' = [trk EXCEPT !.pc = "returned",
                                !.new_stress_day = r.new_stress_day,
                                !.stress_alert = r.stress_alert,
                                !.update = r.update,
                                !.write_failed = TRUE]
          /\ report' = UpdateStressDayFails(report, trk.user, r.new_stress_day)
    /\ UNCHANGED <<now, ticks, notification_log, chk, sweep, sess, tier, gen, hist>>

SpecTrackStore == InitTrackStore /\ [][TrackCallStore \/ TrackCallWriteFails]_vars

----------------------------------------------------------------------------
(* One call of parse_mood_and_stress on a text put together from a mood    *)
(* field and a stress field, each present or not, in either order          *)

ParseMoodKeys == { <<"m", "o", "o", "d", ":">>, <<"M", "o", "o", "d", ":">>, <<"M", "O", "O", "D", ":">> }
ParseStressKeys == { <<"s", "t", "r", "e", "s", "s", "_", "l", "e", "v", "e", "l", ":">>, <<"S", "t", "r", "e", "s", "s", "_", "L", "e", "v", "e", "l", ":">> }
ParseGaps == { <<>>, <<"\n", " ">>, <<"\f", "">> }
ParseSeparators == { <<",", " ">>, <<"\n">> }
\* the second prefix holds a "mood:" that no word follows
ParsePrefixes == { <<>>, <<"R", "e", "s", "u", "l", "t", " ", "m", "o", "o", "d", ":", "!", " ">> }
ParseWords ==
    { [raw |-> <<"s", "a", "d">>, mood |-> <<"S", "a", "d">>],
      [raw |-> <<"H", "A", "P", "P", "Y">>, mood |-> <<"H", "a", "p", "p", "y">>],
      [raw |-> <<"a", "n", "X", "i", "o", "u", "s">>, mood |-> <<"A", "n", "x", "i", "o", "u", "s">>],
      [raw |-> <<"x", "_", "1">>, mood |-> <<"X", "_", "1">>] }
ParseNumbers ==
    { [raw |-> <<"3">>, stress_level |-> 3],
      [raw |-> <<"1", "2">>, stress_level |-> 12],
      [raw |-> <<"0", "0", "7">>, stress_level |-> 7] }
\* one digit more than int() converts
LongNumber == [i \in 1..(INT_MAX_STR_DIGITS + 1) |-> "1"]

InitParse ==
    /\ now = 0 /\ ticks = 0
    /\ report = <<>>
    /\ notification_log = <<>>
    /\ chk = [c \in Callers |-> IdleFrame]
    /\ sweep = IdleSweep
    /\ sess = [s \in Sessions |-> IdleSession]
    /\ hist = NoHistory
    /\ trk = IdleTrk
    /\ tier = IdleTier
    /\ \E is_str \in BOOLEAN, has_mood \in BOOLEAN, has_stress \in BOOLEAN,
          mood_first \in BOOLEAN,
          mk \in ParseMoodKeys, sk \in ParseStressKeys, gap \in ParseGaps,
          sep \in ParseSeparators, pre \in ParsePrefixes,
          w \in ParseWords, n \in ParseNumbers :
          LET mood_field == IF has_mood THEN mk \o gap \o w.raw ELSE <<>>
              stress_field == IF has_stress THEN sk \o gap \o n.raw ELSE <<>>
              text == IF mood_first
                      THEN pre \o mood_field \o sep \o stress_field
                      ELSE pre \o stress_field \o sep \o mood_field
          IN \/ gen = [IdleGen EXCEPT
                       !.pc = "generated",
                       !.text = IF is_str THEN text ELSE <<>>,
                       !.is_str = is_str,
                       !.parts = [has_mood |-> has_mood, has_stress |-> has_stress,
                                  mood_first |-> mood_first,
                                  mood |-> w.mood, stress_level |-> n.stress_level]]
             \* a mood field and a stress field of LongNumber, whose integer
             \* the model does not write down (stress_level -1)
             \/ /\ is_str /\ has_mood /\ has_stress /\ mood_first
                /\ gap = <<>> /\ pre = <<>> /\ n.stress_level = 3
                /\ gen = [IdleGen EXCEPT
                       !.pc = "generated",
                       !.text = mood_field \o sep \o sk \o LongNumber,
                       !.is_str = TRUE,
                       !.parts = [has_mood |-> TRUE, has_stress |-> TRUE,
                                  mood_first |-> TRUE,
                                  mood |-> w.mood, stress_level |-> -1]]

ParseCall ==
    /\ gen.pc = "generated"
    /\ LET r == parse_mood_and_stress(gen.text, gen.is_str)
       IN gen' = [gen EXCEPT !.pc = "parsed", !.mood = r.mood,
                             !.stress_level = r.stress_level]
    /\ UNCHANGED <<now, ticks, report, notification_log, chk, sweep, sess, trk, tier, hist>>

SpecParse == InitParse /\ [][ParseCall]_vars

----------------------------------------------------------------------------
(* One call of generate_recommendations on a response put together from    *)
(* lines before the header, a header line, numbered items and a closing    *)
(* line, then parse_mood_and_stress on what it returned                    *)

GenPreambles == { <<>>, <<<<"H", "e", "r", "e", " ", "i", "s", " ", "m", "y", " ", "a", "s", "s", "e", "s", "s", "m", "e", "n", "t", ":">>>>, <<<<"1", ".", " ", "O", "v", "e", "r", "v", "i", "e", "w">>>> }
GenHeaders == { <<>>,
                <<<<"M", "o", "o", "d", ":", " ", "S", "a", "d", ",", " ", "s", "t", "r", "e", "s", "s", "_", "l", "e", "v", "e", "l", ":", " ", "3">>>>,
                <<<<"M", "o", "o", "d", ":", " ", "A", "n", "x", "i", "o", "u", "s", ",", " ", "s", "t", "r", "e", "s", "s", "_", "l", "e", "v", "e", "l", ":", " ", "9">>>>,
                <<<<" ", " ", "m", "o", "o", "d", ":", " ", "h", "a", "p", "p", "y">>>> }
GenItemStyles == { <<".">>, <<")">>, <<" ", "-">> }
GenTrailers == { <<>>, <<<<"T", "a", "k", "e", " ", "c", "a", "r", "e", "!">>>> }

\* the line of item k
GenItem(k, style) == <<Digits[k + 1]>> \o style \o <<" ", "R", "e", "s", "t">>

\* the item lines, with an empty line after each when spaced
RECURSIVE GenItemLines(_, _, _, _)
GenItemLines(k, n, style, spaced) ==
    IF k > n THEN <<>>
    ELSE <<GenItem(k, style)>> \o (IF spaced THEN << <<>> >> ELSE <<>>)
         \o GenItemLines(k + 1, n, style, spaced)

InitGenerate ==
    /\ now = 0 /\ ticks = 0
    /\ report = <<>>
    /\ notification_log = <<>>
    /\ chk = [c \in Callers |-> IdleFrame]
    /\ sweep = IdleSweep
    /\ sess = [s \in Sessions |-> IdleSession]
    /\ hist = NoHistory
    /\ trk = IdleTrk
    /\ tier = IdleTier
    /\ \E pre \in GenPreambles, header \in GenHeaders, n \in 0..MaxItems,
          style \in GenItemStyles, spaced \in BOOLEAN, trailer \in GenTrailers :
          gen = [IdleGen EXCEPT
                    !.pc = "call",
                    !.response = Join(pre \o header \o GenItemLines(1, n, style, spaced)
                                      \o trailer),
                    !.parts = [pre |-> pre, header |-> header, n_items |-> n,
                               items |-> GenItemLines(1, n, style, FALSE),
                               spaced |-> spaced, trailer |-> trailer]]

\* invoke_model returned gen.response
GenerateReturns ==
    /\ gen.pc = "call"
    /\ gen' = [gen EXCEPT !.pc = "generated",
                          !.text = generate_recommendations(gen.response)]
    /\ UNCHANGED <<now, ticks, report, notification_log, chk, sweep, sess, trk, tier, hist>>

SpecGenerate == InitGenerate /\ [][GenerateReturns \/ ParseCall]_vars

----------------------------------------------------------------------------
(* analyze when invoke_model raises: the counter is fetched, the sentinel  *)
(* text is parsed and handed to process_stress_tracking                    *)

ErrorMessages == { <<>>,
                   <<"T", "h", "r", "o", "t", "t", "l", "e", "d">>,
                   <<"m", "o", "o", "d", ":", " ", "H", "a", "p", "p", "y">>,
                   <<"s", "t", "r", "e", "s", "s", "_", "l", "e", "v", "e", "l", ":", " ", "5", ",", " ", "M", "o", "o", "d", ":", " ", "H", "a", "p", "p", "y">>,
                   <<"t", "i", "m", "e", "o", "u", "t", "\n", "M", "o", "o", "d", ":", "H", "a", "p", "p", "y", " ", "s", "t", "r", "e", "s", "s", "_", "l", "e", "v", "e", "l", ":", "4">> }

InitGenFail ==
    /\ now = 0 /\ ticks = 0
    /\ notification_log = <<>>
    /\ chk = [c \in Callers |-> IdleFrame]
    /\ sweep = IdleSweep
    /\ sess = [s \in Sessions |-> IdleSession]
    /\ hist = NoHistory
    /\ tier = IdleTier
    /\ \E client_error \in BOOLEAN, error_msg \in ErrorMessages,
          c \in 0..MaxCurrent, u \in Users :
          /\ report = [v \in Users |-> [stress_day |-> c]]
          /\ trk = [IdleTrk EXCEPT !.pc = "fetched", !.current_stress_day = c, !.user = u]
          /\ gen = [IdleGen EXCEPT !.pc = "call",
                                   !.parts = [client_error |-> client_error,
                                              error_msg |-> error_msg]]

\* invoke_model raised
GenerateFails ==
    /\ gen.pc = "call"
    /\ gen' = [gen EXCEPT !.pc = "generated",
                          !.text = GenerationFailed(gen.parts.client_error,
                                                    gen.parts.error_msg)]
    /\ UNCHANGED <<now, ticks, report, notification_log, chk, sweep, sess, trk, tier, hist>>

\* analyze: process_stress_tracking on the parsed pair, with its store write
AnalyzeTrack ==
    /\ gen.pc = "parsed"
    /\ trk.pc = "fetched"
    /\ LET r == process_stress_tracking(gen.mood, gen.stress_level, trk.current_stress_day)
       IN /\ trk' = [trk EXCEPT !.pc = "returned",
                                !.mood = gen.mood,
                                !.stress_level = gen.stress_level,
                                !.new_stress_day = r.new_stress_day,
                                !.stress_alert = r.stress_alert,
                                !.update = r.update]
          /\ report' = IF r.update
                       THEN UpdateStressDay(report, trk.user, r.new_stress_day)
                       ELSE report
    /\ UNCHANGED <<now, ticks, notification_log, chk, sweep, sess, tier, gen, hist>>

SpecGenFail == InitGenFail /\ [][GenerateFails \/ ParseCall \/ AnalyzeTrack]_vars

----------------------------------------------------------------------------
(* One call of get_notification_message on any stress_day *)

InitTier ==
    /\ now = 0 /\ ticks = 0
    /\ report = <<>>
    /\ notification_log = <<>>
    /\ chk = [c \in Callers |-> IdleFrame]
    /\ sweep = IdleSweep
    /\ sess = [s \in Sessions |-> IdleSession]
    /\ hist = NoHistory
    /\ gen = IdleGen
    /\ trk = IdleTrk
    /\ \E d \in 0..MaxTierDay :
          tier = [IdleTier EXCEPT !.pc = "call", !.stress_day = d]

TierCall ==
    /\ tier.pc = "call"
    /\ \E choice \in 1..Len(LEVEL_1_MESSAGES) :
          tier' = [tier EXCEPT !.pc = "returned", !.choice = choice,
                               !.result = get_notification_message(tier.stress_day, choice)]
    /\ UNCHANGED <<now, ticks, report, notification_log, chk, sweep, sess, trk, gen, hist>>

SpecTier == InitTier /\ [][TierCall]_vars

----------------------------------------------------------------------------
(* StressNotificationSystem.check_user_stress, one step per store          *)
(* operation and per clock read.  c is the caller's frame: "api" for the   *)
(* on-demand endpoint, "sweep" for the call made by check_all_users.       *)

Row_NoStressDay(user_id, notification_type, message, stress_day, sent_at) ==
    [id |-> user_id, notification_type |-> notification_type, message |-> message,
     stress_day |-> 0, sent_at |-> sent_at]

\* the row log_notification inserts
Row(user_id, notification_type, message, stress_day, sent_at) ==
    [id |-> user_id, notification_type |-> notification_type, message |-> message,
     stress_day |-> stress_day, sent_at |-> sent_at]

Matching_AnyType(user_id, notification_type) ==
    { i \in 1..Len(notification_log) : notification_log[i].id = user_id }

\* .eq("id", user_id).eq("notification_type", notification_type)
Matching(user_id, notification_type) ==
    { i \in 1..Len(notification_log) :
        /\ notification_log[i].id = user_id
        /\ notification_log[i].notification_type = notification_type }

\* .order("sent_at", desc=True).limit(1): the sent_at of the first row
LastSent(user_id, notification_type) ==
    LET m == Matching(user_id, notification_type)
    IN notification_log[CHOOSE i \in m :
            \A j \in m : notification_log[j].sent_at <= notification_log[i].sent_at].sent_at

CooldownPassed_Strict(t, last_sent) == t - last_sent > Cooldown

CooldownPassed_OneHour(t, last_sent) == t - last_sent >= MINUTES_PER_HOUR

\* time_diff >= timedelta(hours=2)
CooldownPassed(t, last_sent) == t - last_sent >= Cooldown

TimeGated_All(notification_type) == TRUE

\* notification_type == "level_1": the tiers the time window applies to
TimeGated(notification_type) == notification_type = "level_1"

\* select on "report", then get_notification_message
ReadReport(c, u) ==
    /\ Len(notification_log) < MaxLog
    /\ IF u \notin DOMAIN report
       THEN chk' = [chk EXCEPT ![c] = [IdleFrame EXCEPT !.pc = "done", !.user = u,
                                                       !.status = "no_report"]]
       ELSE \E choice \in 1..Len(LEVEL_1_MESSAGES) :
              LET stress_day == report[u].stress_day
                  n == get_notification_message(stress_day, choice)
                  f == [IdleFrame EXCEPT !.user = u, !.stress_day = stress_day,
                                         !.log0 = Len(notification_log),
                                         !.notification_type = n.notification_type,
                                         !.message = n.message,
                                         !.priority = n.priority]
              IN chk' = [chk EXCEPT ![c] =
                     IF n.notification_type = None
                     THEN [f EXCEPT !.pc = "done", !.status = "ok"]
                     ELSE IF TimeGated(n.notification_type)
                     THEN [f EXCEPT !.pc = "window"]
                     ELSE [f EXCEPT !.pc = "cooldown"]]
    /\ UNCHANGED <<now, ticks, report, notification_log, sess, trk, tier, gen, hist>>

\* notification_type == "level_1" and not self.is_notification_time()
WindowGate(c) ==
    /\ chk[c].pc = "window"
    /\ chk' = [chk EXCEPT ![c].t_window = now,
                          ![c].pc = IF is_notification_time(now)
                                    THEN "cooldown" ELSE "outside"]
    /\ UNCHANGED <<now, ticks, report, notification_log, sweep, sess, trk, tier, gen, hist>>

\* the outside_time_window result, "current_hour" read from the clock again
OutsideWindow(c) ==
    /\ chk[c].pc = "outside"
    /\ chk' = [chk EXCEPT ![c].pc = "done", ![c].status = "outside_time_window"]
    /\ UNCHANGED <<now, ticks, report, notification_log, sweep, sess, trk, tier, gen, hist>>

\* should_send_notification: the select on notification_log
CooldownLookup(c) ==
    /\ chk[c].pc = "cooldown"
    /\ IF Matching(chk[c].user, chk[c].notification_type) = {}
       THEN chk' = [chk EXCEPT ![c].pc = "log"]
       ELSE chk' = [chk EXCEPT ![c].pc = "decide", ![c].found = TRUE,
                               ![c].last_sent = LastSent(chk[c].user, chk[c].notification_type)]
    /\ UNCHANGED <<now, ticks, report, notification_log, sweep, sess, trk, tier, gen, hist>>

\* should_send_notification: datetime.now() - last_sent >= timedelta(hours=2)
CooldownDecide(c) ==
    /\ chk[c].pc = "decide"
    /\ chk' = [chk EXCEPT ![c].t_decide = now,
                          ![c].pc = IF CooldownPassed(now, chk[c].last_sent)
                                    THEN "log" ELSE "done",
                          ![c].status = IF CooldownPassed(now, chk[c].last_sent)
                                        THEN None ELSE "cooldown"]
    /\ UNCHANGED <<now, ticks, report, notification_log, sweep, sess, trk, tier, gen, hist>>

ReportAfterNotification_Reset(table, user_id) ==
    IF user_id \in DOMAIN table
    THEN [table EXCEPT ![user_id].stress_day = 0]
    ELSE table

\* table "report" once an evaluation has logged its notification: no code of
\* the notification system writes that table
ReportAfterNotification(table, user_id) == table

\* log_notification: the row is put together, sent_at read from the clock
LogNotificationStamp(c) ==
    /\ chk[c].pc = "log"
    /\ chk' = [chk EXCEPT ![c].pc = "insert", ![c].sent_at = now]
    /\ UNCHANGED <<now, ticks, report, notification_log, sweep, sess, trk, tier, gen, hist>>

\* log_notification: the insert reaches the store
LogNotification(c) ==
    /\ chk[c].pc = "insert"
    /\ report' = ReportAfterNotification(report, chk[c].user)
    /\ notification_log' = Append(notification_log,
            Row(chk[c].user, chk[c].notification_type, chk[c].message,
                chk[c].stress_day, chk[c].sent_at))
    /\ chk' = [chk EXCEPT ![c].pc = "return"]
    /\ UNCHANGED <<now, ticks, sweep, sess, trk, tier, gen, hist>>

StatusAfterLog_RolledBack(inserted) ==
    IF inserted THEN "notification_sent" ELSE "error"

\* log_notification returns nothing and raises nothing: the status returned
\* after it does not depend on whether the row was inserted
StatusAfterLog(inserted) == "notification_sent"

\* the notification_sent result
ReturnSent(c) ==
    /\ chk[c].pc = "return"
    /\ chk' = [chk EXCEPT ![c].pc = "done",
                          ![c].status = StatusAfterLog(~chk[c].insert_failed)]
    /\ UNCHANGED <<now, ticks, report, notification_log, sweep, sess, trk, tier, gen, hist>>

(* The same steps when a store operation raises *)

\* the select on "report" raises: the except of check_user_stress answers
ReadReportFails(c, u) ==
    /\ Len(notification_log) < MaxLog
    /\ chk' = [chk EXCEPT ![c] = [IdleFrame EXCEPT !.pc = "done", !.user = u,
                                                   !.status = "error"]]
    /\ UNCHANGED <<now, ticks, report, notification_log, sess, trk, tier, gen, hist>>

AllowOnLookupError_Closed == FALSE

\* should_send_notification: "return True  # Allow notification if check fails"
AllowOnLookupError == TRUE

\* should_send_notification: the select on notification_log raises
CooldownLookupFails(c) ==
    /\ chk[c].pc = "cooldown"
    /\ chk' = [chk EXCEPT ![c].lookup_failed = TRUE,
                          ![c].pc = IF AllowOnLookupError THEN "log" ELSE "done",
                          ![c].status = IF AllowOnLookupError THEN None ELSE "cooldown"]
    /\ UNCHANGED <<now, ticks, report, notification_log, sweep, sess, trk, tier, gen, hist>>

\* log_notification: the insert raises, the error is logged
LogNotificationFails(c) ==
    /\ chk[c].pc = "insert"
    /\ chk' = [chk EXCEPT ![c].pc = "return", ![c].insert_failed = TRUE]
    /\ UNCHANGED <<now, ticks, report, notification_log, sweep, sess, trk, tier, gen, hist>>

\* GET /api/check-stress/{user_id}, the select on "report" raising
CheckUserStressFails(u) ==
    /\ chk["api"].pc = "idle"
    /\ ReadReportFails("api", u)
    /\ UNCHANGED sweep

\* GET /api/check-stress/{user_id}
CheckUserStress(u) ==
    /\ chk["api"].pc = "idle"
    /\ ReadReport("api", u)
    /\ UNCHANGED sweep

\* the endpoint has answered
CheckUserStressDone ==
    /\ chk["api"].pc = "done"
    /\ chk' = [chk EXCEPT !["api"] = IdleFrame]
    /\ UNCHANGED <<now, ticks, report, notification_log, sweep, sess, trk, tier, gen, hist>>

----------------------------------------------------------------------------
(* StressNotificationSystem.check_all_users *)

\* the orders in which the select on "report" can return the rows
Orders(S) ==
    { q \in [1..Cardinality(S) -> S] : \A i, j \in 1..Cardinality(S) : q[i] = q[j] => i = j }

CheckAllUsers ==
    /\ sweep.pc = "idle"
    /\ Len(notification_log) < MaxLog
    /\ IF DOMAIN report = {}
       THEN sweep' = [IdleSweep EXCEPT !.pc = "done"]
       ELSE \E q \in Orders(DOMAIN report) :
              sweep' = [IdleSweep EXCEPT !.pc = "loop", !.pending = q,
                                         !.total_users = Len(q)]
    /\ UNCHANGED <<now, ticks, report, notification_log, chk, sess, trk, tier, gen, hist>>

\* notification_result = self.check_user_stress(user_id)
SweepCall ==
    /\ sweep.pc = "loop"
    /\ sweep.pending # <<>>
    /\ chk["sweep"].pc = "idle"
    /\ ReadReport("sweep", Head(sweep.pending))
    /\ UNCHANGED sweep

\* the call of check_user_stress whose select on "report" raises
SweepCallFails ==
    /\ sweep.pc = "loop"
    /\ sweep.pending # <<>>
    /\ chk["sweep"].pc = "idle"
    /\ ReadReportFails("sweep", Head(sweep.pending))
    /\ UNCHANGED sweep

\* check_all_users: its own select on "report" raises
CheckAllUsersFails ==
    /\ sweep.pc = "idle"
    /\ Len(notification_log) < MaxLog
    /\ sweep' = [IdleSweep EXCEPT !.pc = "done", !.status = "error"]
    /\ UNCHANGED <<now, ticks, report, notification_log, chk, sess, trk, tier, gen, hist>>

CountSent_All(n, status) == n + 1

\* if notification_result["status"] == "notification_sent": notifications_sent += 1
CountSent(n, status) == IF status = "notification_sent" THEN n + 1 ELSE n

\* results.append(...), notifications_sent += 1
SweepCollect ==
    /\ sweep.pc = "loop"
    /\ chk["sweep"].pc = "done"
    /\ sweep' = [sweep EXCEPT
          !.pending = Tail(sweep.pending),
          !.results = Append(sweep.results,
                             [user_id |-> chk["sweep"].user, status |-> chk["sweep"].status]),
          !.notifications_sent = CountSent(sweep.notifications_sent, chk["sweep"].status)]
    /\ chk' = [chk EXCEPT !["sweep"] = IdleFrame]
    /\ UNCHANGED <<now, ticks, report, notification_log, sess, trk, tier, gen, hist>>

SweepReturn ==
    /\ sweep.pc = "loop"
    /\ sweep.pending = <<>>
    /\ chk["sweep"].pc = "idle"
    /\ sweep' = [sweep EXCEPT !.pc = "done"]
    /\ UNCHANGED <<now, ticks, report, notification_log, chk, sess, trk, tier, gen, hist>>

\* the caller of check_all_users has the summary
CheckAllUsersDone ==
    /\ sweep.pc = "done"
    /\ sweep' = IdleSweep
    /\ UNCHANGED <<now, ticks, report, notification_log, chk, sess, trk, tier, gen, hist>>

----------------------------------------------------------------------------
(* Evaluations executed one at a time, every store operation succeeding,   *)
(* the clock advancing between any two steps                               *)

InitDays == {5, 7, 11, 51}
\* 06:30
StartTime == 6 * MINUTES_PER_HOUR + HalfHour

InitNotify ==
    /\ now = StartTime /\ ticks = 0
    /\ \E S \in SUBSET Users : report \in [S -> [stress_day : InitDays]]
    /\ notification_log = <<>>
    /\ chk = [c \in Callers |-> IdleFrame]
    /\ sweep = IdleSweep
    /\ sess = [s \in Sessions |-> IdleSession]
    /\ hist = NoHistory
    /\ gen = IdleGen
    /\ trk = IdleTrk
    /\ tier = IdleTier

NextNotify ==
    \/ Tick
    \/ \E u \in Users : sweep.pc = "idle" /\ CheckUserStress(u)
    \/ CheckUserStressDone
    \/ chk["api"].pc = "idle" /\ CheckAllUsers
    \/ SweepCall
    \/ SweepCollect
    \/ SweepReturn
    \/ CheckAllUsersDone
    \/ \E c \in Callers :
          \/ WindowGate(c)
          \/ OutsideWindow(c)
          \/ CooldownLookup(c)
          \/ CooldownDecide(c)
          \/ LogNotificationStamp(c)
          \/ LogNotification(c)
          \/ ReturnSent(c)

SpecNotify == InitNotify /\ [][NextNotify]_vars

(***************************************************************************)
(* The same evaluations started at any hour of the day, user 1 holding the *)
(* only report record                                                      *)
(***************************************************************************)

InitAnyHour ==
    /\ \E h \in 0..(HOURS_PER_DAY - 1) : now = h * MINUTES_PER_HOUR
    /\ ticks = 0
    /\ report \in [{1} -> [stress_day : InitDays]]
    /\ notification_log = <<>>
    /\ chk = [c \in Callers |-> IdleFrame]
    /\ sweep = IdleSweep
    /\ sess = [s \in Sessions |-> IdleSession]
    /\ hist = NoHistory
    /\ gen = IdleGen
    /\ trk = IdleTrk
    /\ tier = IdleTier

SpecAnyHour == InitAnyHour /\ [][NextNotify]_vars

(***************************************************************************)
(* On-demand checks executed one at a time, started at 07:00 with the log  *)
(* holding the level_1 row that user 1 was sent at 07:00 for the counter   *)
(* 7; the counters are what the sessions have made of them since           *)
(***************************************************************************)

InitCross ==
    /\ now = WINDOW_START * MINUTES_PER_HOUR /\ ticks = 0
    /\ report \in [Users -> [stress_day : InitDays]]
    /\ notification_log = << Row(1, "level_1", LEVEL_1_MESSAGES[1], 7, now) >>
    /\ chk = [c \in Callers |-> IdleFrame]
    /\ sweep = IdleSweep
    /\ sess = [s \in Sessions |-> IdleSession]
    /\ hist = NoHistory
    /\ gen = IdleGen
    /\ trk = IdleTrk
    /\ tier = IdleTier

NextCross ==
    \/ Tick
    \/ \E u \in Users : CheckUserStress(u)
    \/ CheckUserStressDone
    \/ WindowGate("api")
    \/ OutsideWindow("api")
    \/ CooldownLookup("api")
    \/ CooldownDecide("api")
    \/ LogNotificationStamp("api")
    \/ LogNotification("api")
    \/ ReturnSent("api")

SpecCross == InitCross /\ [][NextCross]_vars

(***************************************************************************)
(* An on-demand check and a sweep running at the same time within one      *)
(* half hour, every store operation succeeding; user 1 holds the only      *)
(* report record                                                           *)
(***************************************************************************)

InitConcurrent ==
    /\ now \in {StartTime, WINDOW_START * MINUTES_PER_HOUR} /\ ticks = 0
    /\ report \in [{1} -> [stress_day : InitDays]]
    /\ notification_log = <<>>
    /\ chk = [c \in Callers |-> IdleFrame]
    /\ sweep = IdleSweep
    /\ sess = [s \in Sessions |-> IdleSession]
    /\ hist = NoHistory
    /\ gen = IdleGen
    /\ trk = IdleTrk
    /\ tier = IdleTier

NextConcurrent ==
    \/ \E u \in Users : CheckUserStress(u)
    \/ CheckUserStressDone
    \/ CheckAllUsers
    \/ SweepCall
    \/ SweepCollect
    \/ SweepReturn
    \/ CheckAllUsersDone
    \/ \E c \in Callers :
          \/ WindowGate(c)
          \/ OutsideWindow(c)
          \/ CooldownLookup(c)
          \/ CooldownDecide(c)
          \/ LogNotificationStamp(c)
          \/ LogNotification(c)
          \/ ReturnSent(c)

SpecConcurrent == InitConcurrent /\ [][NextConcurrent]_vars

(***************************************************************************)
(* Evaluations executed one at a time within one half hour, before or at   *)
(* the start of the window, any store operation of theirs free to raise    *)
(***************************************************************************)

InitFail ==
    /\ now \in {StartTime, WINDOW_START * MINUTES_PER_HOUR} /\ ticks = 0
    /\ \E S \in SUBSET Users : report \in [S -> [stress_day : InitDays]]
    /\ notification_log = <<>>
    /\ chk = [c \in Callers |-> IdleFrame]
    /\ sweep = IdleSweep
    /\ sess = [s \in Sessions |-> IdleSession]
    /\ hist = NoHistory
    /\ gen = IdleGen
    /\ trk = IdleTrk
    /\ tier = IdleTier

NextFail ==
    \/ \E u \in Users : sweep.pc = "idle" /\ CheckUserStress(u)
    \/ CheckUserStressDone
    \/ chk["api"].pc = "idle" /\ CheckAllUsers
    \/ SweepCall
    \/ SweepCollect
    \/ SweepReturn
    \/ CheckAllUsersDone
    \/ \E c \in Callers :
          \/ WindowGate(c)
          \/ OutsideWindow(c)
          \/ CooldownLookup(c)
          \/ CooldownDecide(c)
          \/ LogNotificationStamp(c)
          \/ LogNotification(c)
          \/ ReturnSent(c)
    \/ \E u \in Users : sweep.pc = "idle" /\ CheckUserStressFails(u)
    \/ chk["api"].pc = "idle" /\ CheckAllUsersFails
    \/ SweepCallFails
    \/ \E c \in Callers :
          \/ CooldownLookupFails(c)
          \/ LogNotificationFails(c)

SpecFail == InitFail /\ [][NextFail]_vars

----------------------------------------------------------------------------
(* A session: ModelAnalyzer.analyze, then report.process_user, as run by   *)
(* MultimodalPreprocessor.preprocess                                       *)

\* the mood parse_mood_and_stress returns is capitalized
SessionMoods == { <<"H", "a", "p", "p", "y">>, <<"S", "a", "d">> }

\* fetch_user_data: the select on "report"
FetchUserData(s, u) ==
    /\ sess[s].pc = "idle"
    /\ sess' = [sess EXCEPT ![s] = [IdleSession EXCEPT
                    !.pc = "track", !.user = u,
                    !.current_stress_day =
                        IF u \in DOMAIN report THEN report[u].stress_day ELSE 0]]
    /\ UNCHANGED <<now, ticks, report, notification_log, chk, sweep, trk, tier, gen, hist>>

\* fetch_user_data: the select raises, (None, None, 0) is returned
FetchUserDataFails(s, u) ==
    /\ sess[s].pc = "idle"
    /\ sess' = [sess EXCEPT ![s] = [IdleSession EXCEPT !.pc = "track", !.user = u,
                                                       !.current_stress_day = 0]]
    /\ UNCHANGED <<now, ticks, report, notification_log, chk, sweep, trk, tier, gen, hist>>

\* parse_mood_and_stress result, process_stress_tracking and its store write
ProcessStressTracking(s) ==
    /\ sess[s].pc = "track"
    /\ ~sess[s].current_none
    /\ \E mood \in SessionMoods, stress_level \in 0..MaxStressLevel :
          LET r == process_stress_tracking(mood, stress_level, sess[s].current_stress_day)
          IN /\ r.new_stress_day <= MaxStressDay
             /\ report' = IF r.update
                          THEN UpdateStressDay(report, sess[s].user, r.new_stress_day)
                          ELSE report
             /\ sess' = [sess EXCEPT ![s].pc = "process_user",
                                     ![s].new_stress_day = r.new_stress_day,
                                     ![s].stress_alert = r.stress_alert]
    /\ UNCHANGED <<now, ticks, notification_log, chk, sweep, trk, tier, gen, hist>>

\* the same call when update_stress_day catches a store error: nothing is
\* written, the computed pair is returned
ProcessStressTrackingWriteFails(s) ==
    /\ sess[s].pc = "track"
    /\ ~sess[s].current_none
    /\ \E mood \in SessionMoods, stress_level \in 0..MaxStressLevel :
          LET r == process_stress_tracking(mood, stress_level, sess[s].current_stress_day)
          IN /\ r.new_stress_day <= MaxStressDay
             /\ r.update
             /\ sess' = [sess EXCEPT ![s].pc = "process_user",
                                     ![s].new_stress_day = r.new_stress_day,
                                     ![s].stress_alert = r.stress_alert]
             /\ report' = UpdateStressDayFails(report, sess[s].user, r.new_stress_day)
    /\ UNCHANGED <<now, ticks, notification_log, chk, sweep, trk, tier, gen, hist>>

\* fetch_user_data of an analyzer built without a store: (None, None, None)
FetchUserDataUnconfigured(s, u) ==
    /\ sess[s].pc = "idle"
    /\ sess' = [sess EXCEPT ![s] = [IdleSession EXCEPT !.pc = "track", !.user = u,
                                                       !.current_none = TRUE]]
    /\ UNCHANGED <<now, ticks, report, notification_log, chk, sweep, trk, tier, gen, hist>>

\* process_stress_tracking on current_stress_day None: a mood that is not
\* happy reaches None + 1 or None >= 5, a TypeError
TrackingRaises(mood, current_none) == current_none /\ ~IsHappy(mood)

\* process_stress_tracking of that analyzer: happy resets to 0 and
\* update_stress_day, without a store, writes nothing; any other mood raises
\* out of analyze
ProcessStressTrackingNone(s) ==
    /\ sess[s].pc = "track"
    /\ sess[s].current_none
    /\ \E mood \in SessionMoods :
          IF TrackingRaises(mood, sess[s].current_none)
          THEN sess' = [sess EXCEPT ![s].pc = "raised"]
          ELSE sess' = [sess EXCEPT ![s].pc = "process_user",
                                    ![s].new_stress_day = NewStressDay(mood, 0, 0),
                                    ![s].stress_alert = StressAlert(mood, NewStressDay(mood, 0, 0))]
    /\ UNCHANGED <<now, ticks, report, notification_log, chk, sweep, trk, tier, gen, hist>>

\* preprocess catches what analyze raised and skips process_user
PreprocessCatches(s) ==
    /\ sess[s].pc = "raised"
    /\ sess' = [sess EXCEPT ![s] = IdleSession]
    /\ UNCHANGED <<now, ticks, report, notification_log, chk, sweep, trk, tier, gen, hist>>

\* process_user: the select on "habit" finds no row of the user and
\* process_user returns; whether the row is there is up to the endpoints that
\* write that table
ProcessUserNoHabit(s) ==
    /\ sess[s].pc = "process_user"
    /\ sess' = [sess EXCEPT ![s].pc = "done"]
    /\ UNCHANGED <<now, ticks, report, notification_log, chk, sweep, trk, tier, gen, hist>>

\* what preprocess returns when process_user raised: the analysis result is
\* replaced, stress_day 0 and no alert
PreprocessFallback(frame) ==
    [frame EXCEPT !.pc = "done", !.new_stress_day = 0, !.stress_alert = None]

\* process_user: a store call (select on "habit", select on "report", insert
\* or update) raises; preprocess catches it
ProcessUserFails(s) ==
    /\ sess[s].pc \in {"process_user", "insert_report", "update_report"}
    /\ sess' = [sess EXCEPT ![s] = PreprocessFallback(sess[s])]
    /\ UNCHANGED <<now, ticks, report, notification_log, chk, sweep, trk, tier, gen, hist>>

\* process_user: the select on "habit" finds the row, then the select on
\* "report"
ProcessUserRead(s) ==
    /\ sess[s].pc = "process_user"
    /\ sess' = [sess EXCEPT ![s].pc = IF sess[s].user \in DOMAIN report
                                      THEN "update_report" ELSE "insert_report"]
    /\ UNCHANGED <<now, ticks, report, notification_log, chk, sweep, trk, tier, gen, hist>>

\* process_user: insert of the first report, stress_day 0; the insert of an
\* id that exists raises out of process_user and preprocess catches it
ProcessUserInsert(s) ==
    /\ sess[s].pc = "insert_report"
    /\ IF sess[s].user \in DOMAIN report
       THEN /\ sess' = [sess EXCEPT ![s] = PreprocessFallback(sess[s])]
            /\ UNCHANGED report
       ELSE /\ report' = [u \in DOMAIN report \cup {sess[s].user} |->
                            IF u = sess[s].user THEN [stress_day |-> 0] ELSE report[u]]
            /\ sess' = [sess EXCEPT ![s].pc = "update_report"]
    /\ UNCHANGED <<now, ticks, notification_log, chk, sweep, trk, tier, gen, hist>>

UpdateCombinedReport_ResetsCounter(table, user_id) ==
    IF user_id \in DOMAIN table
    THEN [table EXCEPT ![user_id].stress_day = 0]
    ELSE table

\* update({"combined_report": ..., "updated_at": ...}).eq("id", user_id): the
\* columns it names are not the counter
UpdateCombinedReport(table, user_id) == table

\* process_user: update of combined_report and updated_at
ProcessUserUpdate(s) ==
    /\ sess[s].pc = "update_report"
    /\ sess' = [sess EXCEPT ![s].pc = "done"]
    /\ report' = UpdateCombinedReport(report, sess[s].user)
    /\ UNCHANGED <<now, ticks, notification_log, chk, sweep, trk, tier, gen, hist>>

\* preprocess has returned
SessionDone(s) ==
    /\ sess[s].pc = "done"
    /\ sess' = [sess EXCEPT ![s] = IdleSession]
    /\ UNCHANGED <<now, ticks, report, notification_log, chk, sweep, trk, tier, gen, hist>>

(***************************************************************************)
(* Sessions of any users, two at a time, store reads and writes that may   *)
(* fail; no report record at the start                                     *)
(***************************************************************************)

InitSession ==
    /\ now = StartTime /\ ticks = 0
    /\ report = <<>>
    /\ notification_log = <<>>
    /\ chk = [c \in Callers |-> IdleFrame]
    /\ sweep = IdleSweep
    /\ sess = [s \in Sessions |-> IdleSession]
    /\ hist = NoHistory
    /\ gen = IdleGen
    /\ trk = IdleTrk
    /\ tier = IdleTier

NextSession ==
    \E s \in Sessions :
        \/ \E u \in Users : FetchUserData(s, u)
        \/ \E u \in Users : FetchUserDataFails(s, u)
        \/ ProcessStressTracking(s)
        \/ ProcessStressTrackingWriteFails(s)
        \/ ProcessUserNoHabit(s)
        \/ ProcessUserFails(s)
        \/ ProcessUserRead(s)
        \/ ProcessUserInsert(s)
        \/ ProcessUserUpdate(s)
        \/ SessionDone(s)

SpecSession == InitSession /\ [][NextSession]_vars

(***************************************************************************)
(* Sessions of any users, two at a time, every store operation succeeding  *)
(***************************************************************************)

NextRace ==
    \E s \in Sessions :
        \/ \E u \in Users : FetchUserData(s, u)
        \/ ProcessStressTracking(s)
        \/ ProcessUserNoHabit(s)
        \/ ProcessUserRead(s)
        \/ ProcessUserInsert(s)
        \/ ProcessUserUpdate(s)
        \/ SessionDone(s)

SpecRace == InitSession /\ [][NextRace]_vars

(***************************************************************************)
(* Sessions one at a time, every store operation succeeding                *)
(***************************************************************************)

NextSolo ==
    \/ \E u \in Users : FetchUserData("s1", u)
    \/ ProcessStressTracking("s1")
    \/ ProcessUserNoHabit("s1")
    \/ ProcessUserRead("s1")
    \/ ProcessUserInsert("s1")
    \/ ProcessUserUpdate("s1")
    \/ SessionDone("s1")

SpecSolo == InitSession /\ [][NextSolo]_vars

(***************************************************************************)
(* Sessions one at a time, every store operation succeeding, while         *)
(* evaluations of the notification system run; the clock stands at the     *)
(* start of the window                                                     *)
(***************************************************************************)


\* the process_stress_tracking call of a session, as ProcessStressTracking,
\* recording what kind of session it is
ProcessStressTrackingCounted(s) ==
    /\ sess[s].pc = "track"
    /\ ~sess[s].current_none
    /\ \E mood \in SessionMoods, stress_level \in 0..MaxStressLevel :
          LET r == process_stress_tracking(mood, stress_level, sess[s].current_stress_day)
              u == sess[s].user
              counted == ~IsHappy(mood) /\ stress_level >= 3
          IN /\ r.new_stress_day <= MaxLifeDay
             /\ report' = IF r.update
                          THEN UpdateStressDay(report, u, r.new_stress_day)
                          ELSE report
             /\ sess' = [sess EXCEPT ![s].pc = "process_user",
                                     ![s].new_stress_day = r.new_stress_day,
                                     ![s].stress_alert = r.stress_alert]
             /\ hist' = [hist EXCEPT
                    ![u].running = IF IsHappy(mood) THEN "happy"
                                   ELSE IF counted THEN "counted" ELSE "other",
                    ![u].written = IF counted /\ @ \in 0..(MaxCounted - 1)
                                   THEN @ + 1 ELSE @]
    /\ UNCHANGED <<now, ticks, notification_log, chk, sweep, trk, tier, gen>>

\* preprocess has returned
SessionDoneCounted(s) ==
    /\ sess[s].pc = "done"
    /\ sess' = [sess EXCEPT ![s] = IdleSession]
    /\ LET u == sess[s].user
           h == hist[u]
       IN hist' = [hist EXCEPT ![u] =
              IF h.running = "happy"
              THEN [written |-> 0, done |-> 0, running |-> "none"]
              ELSE IF h.running = "counted" /\ h.done \in 0..(MaxCounted - 1)
              THEN [h EXCEPT !.done = @ + 1, !.running = "none"]
              ELSE [h EXCEPT !.running = "none"]]
    /\ UNCHANGED <<now, ticks, report, notification_log, chk, sweep, trk, tier, gen>>

InitLife ==
    /\ now = WINDOW_START * MINUTES_PER_HOUR /\ ticks = 0
    /\ report = <<>>
    /\ notification_log = <<>>
    /\ chk = [c \in Callers |-> IdleFrame]
    /\ sweep = IdleSweep
    /\ sess = [s \in Sessions |-> IdleSession]
    /\ hist = NoHistory
    /\ gen = IdleGen
    /\ trk = IdleTrk
    /\ tier = IdleTier

NextLife ==
    \/ FetchUserData("s1", 1)
    \/ ProcessStressTrackingCounted("s1")
    \/ ProcessUserNoHabit("s1")
    \/ ProcessUserRead("s1")
    \/ ProcessUserInsert("s1")
    \/ ProcessUserUpdate("s1")
    \/ SessionDoneCounted("s1")
    \/ \E u \in Users : sweep.pc = "idle" /\ CheckUserStress(u)
    \/ CheckUserStressDone
    \/ chk["api"].pc = "idle" /\ CheckAllUsers
    \/ SweepCall
    \/ SweepCollect
    \/ SweepReturn
    \/ CheckAllUsersDone
    \/ \E c \in Callers :
          \/ WindowGate(c)
          \/ CooldownLookup(c)
          \/ CooldownDecide(c)
          \/ LogNotificationStamp(c)
          \/ LogNotification(c)
          \/ ReturnSent(c)

SpecLife == InitLife /\ [][NextLife]_vars

(***************************************************************************)
(* Sessions one at a time, of analyzers built with or without a store      *)
(***************************************************************************)

NextAnalyze ==
    \/ \E u \in Users : FetchUserData("s1", u)
    \/ \E u \in Users : FetchUserDataFails("s1", u)
    \/ \E u \in Users : FetchUserDataUnconfigured("s1", u)
    \/ ProcessStressTracking("s1")
    \/ ProcessStressTrackingWriteFails("s1")
    \/ ProcessStressTrackingNone("s1")
    \/ PreprocessCatches("s1")
    \/ ProcessUserNoHabit("s1")
    \/ ProcessUserFails("s1")
    \/ ProcessUserRead("s1")
    \/ ProcessUserInsert("s1")
    \/ ProcessUserUpdate("s1")
    \/ SessionDone("s1")

SpecAnalyze == InitSession /\ [][NextAnalyze]_vars

----------------------------------------------------------------------------
(* Claims about process_stress_tracking *)

\* C1: a mood equal to "happy" case-insensitively returns new_stress_day = 0
\* and the counter-reset alert, for every stress_level and current_stress_day;
\* neither the increment rules nor the stress alerts apply.
C1_HappyResets ==
    (trk.pc = "returned" /\ Lower(trk.mood) = happy)
        => (trk.new_stress_day = 0 /\ trk.stress_alert = RESET_ALERT)

C1_Witness ==
    /\ trk.pc = "returned"
    /\ trk.mood = <<"H", "a", "p", "p", "y">>
    /\ trk.stress_level = 5
    /\ trk.current_stress_day = 6
    /\ trk.new_stress_day = 0

\* C2: for a non-Happy mood new_stress_day is current + 1 at stress_level 3,
\* current + 2 at stress_level 4 or 5, and current at every other stress_level.
C2_Increments ==
    (trk.pc = "returned" /\ Lower(trk.mood) # happy)
        => trk.new_stress_day =
              trk.current_stress_day
                + (IF trk.stress_level = 3 THEN 1
                   ELSE IF trk.stress_level = 4 \/ trk.stress_level = 5 THEN 2
                   ELSE 0)

C2_Witness ==
    /\ trk.pc = "returned"
    /\ trk.mood = <<"S", "a", "d">>
    /\ trk.stress_level = 4
    /\ trk.current_stress_day = 2
    /\ trk.new_stress_day = 4

\* C3: for a non-Happy mood the alert depends on new_stress_day alone: high
\* at 5 or more, moderate at exactly 4, none below 4, also when the counter
\* was left unchanged.
C3_AlertByNewDay ==
    (trk.pc = "returned" /\ Lower(trk.mood) # happy)
        => /\ (trk.new_stress_day >= 5) => (trk.stress_alert = HIGH_ALERT)
           /\ (trk.new_stress_day = 4) => (trk.stress_alert = MODERATE_ALERT)
           /\ (trk.new_stress_day < 4) => (trk.stress_alert = None)

C3_Witness ==
    /\ trk.pc = "returned"
    /\ trk.mood = <<"S", "a", "d">>
    /\ trk.stress_level = 0
    /\ trk.current_stress_day = 5
    /\ trk.new_stress_day = 5
    /\ trk.stress_alert = HIGH_ALERT

----------------------------------------------------------------------------
(* Claims about get_notification_message *)

\* C7: every stress_day maps to exactly one tier: above 50 level_3 with the
\* critical message, 11..50 level_2 with the high message, 6..10 level_1 with
\* one of the three level_1 messages, 5 or less no notification; 5, 10 and 50
\* belong to the lower tier.
C7_Tiers ==
    tier.pc = "returned" =>
        LET d == tier.stress_day
            r == tier.result
        IN /\ d > 50 => r = [notification_type |-> "level_3",
                              message |-> LEVEL_3_MESSAGE, priority |-> "critical"]
           /\ (11 <= d /\ d <= 50) => r = [notification_type |-> "level_2",
                              message |-> LEVEL_2_MESSAGE, priority |-> "high"]
           /\ (6 <= d /\ d <= 10) =>
                  /\ r.notification_type = "level_1"
                  /\ r.priority = "moderate"
                  /\ \E i \in 1..3 : r.message = LEVEL_1_MESSAGES[i]
           /\ d <= 5 => r = NoNotification

C7_Witness ==
    /\ tier.pc = "returned"
    /\ tier.stress_day = 50
    /\ tier.result.notification_type = "level_2"

----------------------------------------------------------------------------
(* Claims about the persisted counter *)

\* C4: the persisted stress_day of every user is a non-negative integer in
\* every reachable state, whatever sessions ran and whichever of their store
\* operations failed.
C4_StressDayNonNegative ==
    \A u \in DOMAIN report : report[u].stress_day \in Nat

C4_Witness ==
    \E s \in Sessions :
        /\ sess[s].pc = "process_user"
        /\ sess[s].user \in DOMAIN report
        /\ sess[s].current_stress_day > 0
        /\ sess[s].new_stress_day = 0
        /\ report[sess[s].user].stress_day = 0

----------------------------------------------------------------------------
(* Claims about check_user_stress and check_all_users *)

SameKey(i, j) ==
    /\ notification_log[i].id = notification_log[j].id
    /\ notification_log[i].notification_type = notification_log[j].notification_type

\* C5: with the evaluations executed one at a time and every store operation
\* succeeding, two rows of the log with the same user and the same type have
\* sent_at values at least 2 hours apart.
C5_CooldownInvariant ==
    \A i, j \in 1..Len(notification_log) :
        (i < j /\ SameKey(i, j))
            => notification_log[j].sent_at - notification_log[i].sent_at >= 2 * 60

C5_Witness ==
    \E i, j \in 1..Len(notification_log) :
        /\ i < j
        /\ SameKey(i, j)
        /\ notification_log[j].sent_at - notification_log[i].sent_at = 2 * 60

\* C6: every level_1 row ever appended to the log has a sent_at whose
\* hour-of-day is in [7, 9), the clock being free to advance between the
\* window check, the cooldown lookup and the log write.
C6_Level1InWindow ==
    \A i \in 1..Len(notification_log) :
        notification_log[i].notification_type = "level_1"
            => (7 <= Hour(notification_log[i].sent_at)
                /\ Hour(notification_log[i].sent_at) < 9)

\* the rows of user u and type T that an evaluation started at log length n saw
Prior(n, u, T) ==
    { i \in 1..n : notification_log[i].id = u /\ notification_log[i].notification_type = T }

\* the evaluation of frame c found no row of its user and type younger than
\* 2 hours when it compared the clock
NoRecent(c) ==
    \A i \in Prior(chk[c].log0, chk[c].user, chk[c].notification_type) :
        chk[c].t_decide - notification_log[i].sent_at >= 2 * 60

\* C8: for a stress_day in 6..10, an evaluation that reads an hour outside
\* [7, 9) returns outside_time_window, whatever the notification history, and
\* appends no row.
C8_OutsideWindow ==
    \A c \in Callers :
        ( /\ chk[c].pc = "done"
          /\ 6 <= chk[c].stress_day /\ chk[c].stress_day <= 10
          /\ (Hour(chk[c].t_window) < 7 \/ Hour(chk[c].t_window) >= 9) )
        => /\ chk[c].status = "outside_time_window"
           /\ Len(notification_log) = chk[c].log0

\* the history holds a level_1 row of the same user sent less than 2 hours
\* before the window was checked
C8_Witness ==
    /\ chk["api"].pc = "done"
    /\ chk["api"].status = "outside_time_window"
    /\ Hour(chk["api"].t_window) = 9
    /\ \E i \in 1..Len(notification_log) :
          /\ notification_log[i].id = chk["api"].user
          /\ notification_log[i].notification_type = "level_1"
          /\ chk["api"].t_window - notification_log[i].sent_at < 2 * 60

\* C9: for a stress_day above 10 the outcome does not depend on the hour: at
\* every hour, an evaluation that finds no row of its type for the user in the
\* last 2 hours returns notification_sent with the type of the tier.
C9_NotTimeGated ==
    \A c \in Callers :
        ( /\ chk[c].pc = "done"
          /\ chk[c].user \in DOMAIN report
          /\ chk[c].stress_day > 10
          /\ NoRecent(c) )
        => /\ chk[c].status = "notification_sent"
           /\ chk[c].notification_type =
                 (IF chk[c].stress_day > 50 THEN "level_3" ELSE "level_2")
           /\ Len(notification_log) = chk[c].log0 + 1

C9_Witness ==
    /\ chk["api"].pc = "done"
    /\ chk["api"].stress_day = 11
    /\ chk["api"].status = "notification_sent"
    /\ Hour(now) = 23

\* C10: an evaluation past the tier and window gates returns cooldown and
\* leaves the log unchanged when the most recent row of its user and type is
\* younger than 2 hours; with no such row, or one 2 hours old or older, it
\* returns notification_sent and has appended exactly one row (user, type,
\* message, stress_day).
PastGates(c) ==
    /\ chk[c].pc = "done"
    /\ chk[c].status \in {"cooldown", "notification_sent"}

C10_CooldownGate ==
    \A c \in Callers :
        PastGates(c) =>
            IF NoRecent(c)
            THEN /\ chk[c].status = "notification_sent"
                 /\ Len(notification_log) = chk[c].log0 + 1
                 /\ LET row == notification_log[Len(notification_log)]
                    IN /\ row.id = chk[c].user
                       /\ row.notification_type = chk[c].notification_type
                       /\ row.message = chk[c].message
                       /\ row.stress_day = chk[c].stress_day
            ELSE /\ chk[c].status = "cooldown"
                 /\ Len(notification_log) = chk[c].log0

\* the row found is exactly 2 hours old
C10_Witness ==
    \E c \in Callers :
        /\ chk[c].pc = "done"
        /\ chk[c].status = "notification_sent"
        /\ chk[c].found
        /\ chk[c].t_decide - chk[c].last_sent = 2 * 60

----------------------------------------------------------------------------
(* Claims about failing store operations of the notification policy *)

\* the last row of the log is the one frame c decided on
AppendedRow(c) ==
    /\ Len(notification_log) = chk[c].log0 + 1
    /\ LET row == notification_log[Len(notification_log)]
       IN /\ row.id = chk[c].user
          /\ row.notification_type = chk[c].notification_type
          /\ row.message = chk[c].message
          /\ row.stress_day = chk[c].stress_day

\* C11: when the history lookup of the cooldown check fails the evaluation
\* is allowed: it returns notification_sent and appends its row, however
\* recently a row of the same type was sent to the user.
C11_LookupFailOpen ==
    \A c \in Callers :
        (chk[c].pc = "done" /\ chk[c].lookup_failed)
            => /\ chk[c].status = "notification_sent"
               /\ ~chk[c].insert_failed => AppendedRow(c)

\* a row of the same user and type was sent at this very minute
C11_Witness ==
    \E c \in Callers :
        /\ chk[c].pc = "done"
        /\ chk[c].lookup_failed
        /\ chk[c].status = "notification_sent"
        /\ AppendedRow(c)
        /\ \E i \in Prior(chk[c].log0, chk[c].user, chk[c].notification_type) :
              now - notification_log[i].sent_at < 2 * 60

\* C12: when the insert of log_notification fails, check_user_stress still
\* returns notification_sent with the type, priority and message of the tier
\* of the stress_day it read; nothing is appended.
C12_InsertFailureKeepsDecision ==
    \A c \in Callers :
        (chk[c].pc = "done" /\ chk[c].insert_failed)
            => /\ chk[c].status = "notification_sent"
               /\ chk[c].stress_day = report[chk[c].user].stress_day
               /\ \E choice \in 1..3 :
                     get_notification_message(chk[c].stress_day, choice) =
                        [notification_type |-> chk[c].notification_type,
                         message |-> chk[c].message,
                         priority |-> chk[c].priority]
               /\ Len(notification_log) = chk[c].log0

C12_Witness ==
    /\ chk["api"].pc = "done"
    /\ chk["api"].insert_failed
    /\ chk["api"].status = "notification_sent"
    /\ chk["api"].notification_type = "level_2"
    /\ chk["api"].priority = "high"

\* the entries of the sweep whose status is notification_sent
SentEntries ==
    { i \in 1..Len(sweep.results) : sweep.results[i].status = "notification_sent" }

\* C13: a sweep over n report records returns one entry per record,
\* total_users = n, and notifications_sent equal to the number of entries
\* whose status is notification_sent; a user whose evaluation fails gets an
\* entry of its own and the users after it are still evaluated.
C13_SweepSummary ==
    (sweep.pc = "done" /\ sweep.status # "error")
        => /\ Len(sweep.results) = Cardinality(DOMAIN report)
           /\ sweep.total_users = Cardinality(DOMAIN report)
           /\ \A u \in DOMAIN report :
                 Cardinality({ i \in 1..Len(sweep.results) :
                                 sweep.results[i].user_id = u }) = 1
           /\ sweep.notifications_sent = Cardinality(SentEntries)

\* the first user's evaluation failed, the second user's sent a notification
C13_Witness ==
    /\ sweep.pc = "done"
    /\ Len(sweep.results) = 2
    /\ sweep.results[1].status = "error"
    /\ sweep.results[2].status = "notification_sent"
    /\ sweep.notifications_sent = 1

----------------------------------------------------------------------------
(* Claims about exceptions *)

\* C14: no internal exception escapes analyze, check_user_stress or
\* check_all_users, whatever the collaborators do, the store being
\* unconfigured included: each returns a result or a failure outcome.
C14_NoEscape ==
    \A s \in Sessions : sess[s].pc # "raised"

\* C15: when the counter write fails, process_stress_tracking returns the
\* computed new_stress_day and alert, and the stored stress_day keeps the
\* value it had before the call.
C15_WriteFailureKeepsResult ==
    (trk.pc = "returned" /\ trk.write_failed) =>
        /\ trk.new_stress_day =
              NewStressDay(trk.mood, trk.stress_level, trk.current_stress_day)
        /\ trk.stress_alert = StressAlert(trk.mood, trk.new_stress_day)
        /\ \A u \in Users : report[u].stress_day = trk.current_stress_day

\* a failed write of a counter that went from 2 to 4
C15_Witness ==
    /\ trk.pc = "returned" /\ trk.write_failed
    /\ trk.current_stress_day = 2 /\ trk.new_stress_day = 4
    /\ trk.stress_alert = MODERATE_ALERT
    /\ report[trk.user].stress_day = 2

----------------------------------------------------------------------------
(* Claims about parsing and cleaning the generated text *)

\* C16: parse_mood_and_stress never raises; mood is the capitalized word of
\* the mood field, or "Unknown" when the text has no mood field; stress_level
\* is the integer of the stress field, or 0 when the text has none; the two
\* fields are found independently and in either order.
C16_ParseFields ==
    gen.pc = "parsed" =>
        /\ gen.mood = IF gen.is_str /\ gen.parts.has_mood
                      THEN gen.parts.mood ELSE Unknown
        /\ gen.stress_level = IF gen.is_str /\ gen.parts.has_stress
                              THEN gen.parts.stress_level ELSE 0

\* C17: every parsed assessment has a mood of the fixed label set and a
\* stress_level in 0..5, whatever text the generation collaborator returned.
C17_AssessmentDomain ==
    gen.pc = "parsed" =>
        /\ gen.mood \in { <<"H", "a", "p", "p", "y">>,
                          <<"S", "a", "d">>,
                          <<"N", "e", "u", "t", "r", "a", "l">>,
                          <<"A", "n", "g", "r", "y">>,
                          <<"F", "e", "a", "r">>,
                          <<"S", "u", "r", "p", "r", "i", "s", "e">>,
                          <<"D", "i", "s", "g", "u", "s", "t">>,
                          <<"U", "n", "k", "n", "o", "w", "n">> }
        /\ gen.stress_level \in 0..5

\* C18: when the generation call fails, generate_recommendations returns a
\* text that begins with the sentinel line, parse_mood_and_stress reads
\* ("Neutral", 0) from it, and the session writes no counter: the stored
\* stress_day is the one it fetched.
C18_FailureDegrades ==
    /\ gen.pc \in {"generated", "parsed"} =>
          OccursAt(gen.text, 1, <<"M", "o", "o", "d", ":", " ", "N", "e", "u", "t", "r", "a", "l", ",", " ", "s", "t", "r", "e", "s", "s", "_", "l", "e", "v", "e", "l", ":", " ", "0", "\n", "E", "r", "r", "o", "r", ":", " ">>)
    /\ gen.pc = "parsed" =>
          gen.mood = <<"N", "e", "u", "t", "r", "a", "l">> /\ gen.stress_level = 0
    /\ trk.pc = "returned" =>
          /\ ~trk.update
          /\ trk.new_stress_day = trk.current_stress_day
          /\ \A u \in Users : report[u].stress_day = trk.current_stress_day

\* a failure whose message itself holds a mood field and a stress field, for
\* a user whose counter is 3
C18_Witness ==
    /\ gen.pc = "parsed" /\ trk.pc = "returned"
    /\ ~gen.parts.client_error
    /\ gen.parts.error_msg = <<"s", "t", "r", "e", "s", "s", "_", "l", "e", "v", "e", "l", ":", " ", "5", ",", " ", "M", "o", "o", "d", ":", " ", "H", "a", "p", "p", "y">>
    /\ trk.current_stress_day = 3 /\ report[trk.user].stress_day = 3

\* C19: for a response with a header line followed by 5 numbered items,
\* generate_recommendations returns the header line and those 5 item lines
\* and nothing else: what precedes the header and what follows the 5th item
\* is dropped.
C19_HeaderAndFiveItems ==
    (/\ gen.pc = "generated"
     /\ gen.parts.header # <<>>
     /\ gen.parts.n_items >= RECOMMENDATIONS) =>
        gen.text = Strip(Join(gen.parts.header
                              \o SubSeq(gen.parts.items, 1, RECOMMENDATIONS)))

\* C20: a response with fewer than 5 numbered items, or whose cleaned text
\* is shorter than the minimum length, yields the insufficient-output
\* sentinel; the returned text is never empty.
C20_InsufficientOutput ==
    gen.pc = "generated" =>
        /\ (\/ gen.parts.n_items < RECOMMENDATIONS
            \/ Len(CleanResponse(gen.response)) < MIN_RESPONSE_LENGTH) =>
              gen.text = INSUFFICIENT_OUTPUT
        /\ gen.text # <<>>

----------------------------------------------------------------------------
(* Claims about the stored rows and who writes them *)

\* the row that a step of frame c appends
AppendsFor(c) ==
    /\ chk[c].pc = "insert"
    /\ Len(notification_log') = Len(notification_log) + 1
    /\ SubSeq(notification_log', 1, Len(notification_log)) = notification_log
    /\ LET row == notification_log'[Len(notification_log')]
       IN /\ row.id = chk[c].user
          /\ row.stress_day = chk[c].stress_day
          /\ row.notification_type = chk[c].notification_type

\* C21: every row of notification_log records the stress_day its evaluation
\* read and the tier of that value (level_1: 6..10, level_2: 11..50,
\* level_3: above 50); a row is appended only by an evaluation that has
\* decided to send, and the rows already there are neither changed nor
\* removed.
C21_EventsRecordDecision ==
    [][ /\ \A i \in 1..Len(notification_log') :
              LET row == notification_log'[i]
              IN /\ row.notification_type \in {"level_1", "level_2", "level_3"}
                 /\ row.notification_type = "level_1" =>
                        (6 <= row.stress_day /\ row.stress_day <= 10)
                 /\ row.notification_type = "level_2" =>
                        (11 <= row.stress_day /\ row.stress_day <= 50)
                 /\ row.notification_type = "level_3" => row.stress_day > 50
        /\ \/ notification_log' = notification_log
           \/ \E c \in Callers : AppendsFor(c) ]_vars

\* rows of two tiers and two users in one log, the level_1 row written twice
C21_Witness ==
    /\ Len(notification_log) = 3
    /\ \E i, j, k \in 1..Len(notification_log) :
          /\ i < j
          /\ notification_log[i].notification_type = "level_1"
          /\ notification_log[i].stress_day = 7
          /\ notification_log[j].notification_type = "level_1"
          /\ notification_log[j].id = notification_log[i].id
          /\ notification_log[k].notification_type = "level_3"
          /\ notification_log[k].stress_day = 51
          /\ notification_log[k].id # notification_log[i].id

\* C22: the stress_day of an existing report row changes only in the step
\* of process_stress_tracking that calls update_stress_day; process_user
\* writes stress_day only in the row it inserts, as 0, and its updates leave
\* the counter as it is; no row is removed.
C22_CounterWriters ==
    [][ /\ \A u \in DOMAIN report :
              /\ u \in DOMAIN report'
              /\ report'[u].stress_day # report[u].stress_day =>
                    \E s \in Sessions :
                        /\ sess[s].pc = "track" /\ sess[s].user = u
                        /\ sess'[s].pc = "process_user"
                        /\ report'[u].stress_day = sess'[s].new_stress_day
        /\ \A u \in DOMAIN report' \ DOMAIN report :
              /\ report'[u].stress_day = 0
              /\ \E s \in Sessions : sess[s].pc = "insert_report" /\ sess[s].user = u ]_vars

\* process_user has updated the existing row of a user whose counter the
\* same session raised to 2
C22_Witness ==
    \E s \in Sessions :
        /\ sess[s].pc = "done"
        /\ sess[s].user \in DOMAIN report
        /\ sess[s].new_stress_day = 2
        /\ report[sess[s].user].stress_day = 2

\* C23: two sessions of one user that both read the counter c of the
\* user's row, both with a mood that is not happy and stress_level 3, both
\* writes succeeding, leave c + 1 in the store, not c + 2: one update is
\* lost.
C23_LostUpdate ==
    \A u \in Users :
        ( /\ \A s \in Sessions :
                /\ sess[s].pc \in {"process_user", "insert_report", "update_report", "done"}
                /\ sess[s].user = u
                /\ sess[s].new_stress_day = sess[s].current_stress_day + 1
          /\ sess["s1"].current_stress_day = sess["s2"].current_stress_day
          /\ sess["s1"].current_stress_day >= 1 )
        => /\ u \in DOMAIN report
           /\ report[u].stress_day = sess["s1"].current_stress_day + 1

\* both sessions read 1 and wrote 2
C23_Witness ==
    /\ \A s \in Sessions :
          /\ sess[s].pc = "done"
          /\ sess[s].user = 1
          /\ sess[s].current_stress_day = 1
          /\ sess[s].new_stress_day = 2
    /\ report[1].stress_day = 2

\* C25: process_stress_tracking calls update_stress_day exactly when
\* new_stress_day differs from current_stress_day: no call for a mood that is
\* not happy with a stress_level outside {3, 4, 5}, nor for a happy mood with
\* current_stress_day 0; otherwise one call, which writes new_stress_day.
C25_WriteIffChanged ==
    trk.pc = "returned" =>
        /\ trk.update <=> (trk.new_stress_day # trk.current_stress_day)
        /\ (~IsHappy(trk.mood) /\ trk.stress_level \notin {3, 4, 5}) => ~trk.update
        /\ (IsHappy(trk.mood) /\ trk.current_stress_day = 0) => ~trk.update
        /\ (~IsHappy(trk.mood) /\ trk.stress_level \in {3, 4, 5}) => trk.update
        /\ (IsHappy(trk.mood) /\ trk.current_stress_day > 0) => trk.update
        /\ (trk.update /\ ~trk.write_failed) =>
              report[trk.user].stress_day = trk.new_stress_day
        /\ \A u \in Users \ {trk.user} : report[u].stress_day = trk.current_stress_day

\* no call for level 2 on counter 3, one call writing 0 for a happy mood on
\* counter 3
C25_Witness ==
    /\ trk.pc = "returned"
    /\ trk.current_stress_day = 3
    /\ \/ ~IsHappy(trk.mood) /\ trk.stress_level = 2 /\ ~trk.update
          /\ report[trk.user].stress_day = 3
       \/ IsHappy(trk.mood) /\ trk.update /\ report[trk.user].stress_day = 0

\* C27: when a session has completed, every store operation succeeding and
\* no other session running, the stored stress_day of its user is the
\* stress_day it returned, the first session of a user included (a user
\* without habit row, whose first session leaves no report row, aside).
C27_StoredIsReturned ==
    (sess["s1"].pc = "done" /\ sess["s1"].user \in DOMAIN report) =>
        report[sess["s1"].user].stress_day = sess["s1"].new_stress_day

\* C28: the step of a session whose mood is not happy never lowers the stored
\* counter of its user, also when the read of the counter failed.
C28_NeverLowers ==
    [][ \A s \in Sessions :
          ( /\ sess[s].pc = "track" /\ sess'[s].pc = "process_user"
            /\ sess'[s].stress_alert # RESET_ALERT
            /\ sess[s].user \in DOMAIN report )
          => report'[sess[s].user].stress_day >= report[sess[s].user].stress_day ]_vars

----------------------------------------------------------------------------
(* Claims about evaluations and sessions running at the same time *)

\* C29: when a sweep and an on-demand check evaluate the same user at the
\* same time, every store operation succeeding, they never both append a
\* row of the same type less than 2 hours apart.
C29_ConcurrentCooldown ==
    \A i \in 1..Len(notification_log) :
        \A j \in (i + 1)..Len(notification_log) :
            ( /\ notification_log[j].id = notification_log[i].id
              /\ notification_log[j].notification_type = notification_log[i].notification_type )
            => notification_log[j].sent_at >= notification_log[i].sent_at + Cooldown

\* C26: an evaluation answers cooldown only because of a row of its own
\* user and its own type younger than 2 hours; rows of other types and of
\* other users play no part.  A user whose counter is in the level_2 tier
\* is sent level_2 although a level_1 row of the same user is younger than
\* 2 hours.
C26_CooldownPerType ==
    \A c \in Callers :
        chk[c].pc = "done" =>
            /\ chk[c].status = "cooldown" =>
                  \E i \in Prior(chk[c].log0, chk[c].user, chk[c].notification_type) :
                      chk[c].t_decide - notification_log[i].sent_at < Cooldown
            /\ (chk[c].notification_type = "level_2" /\ NoRecent(c)) =>
                  /\ chk[c].status = "notification_sent"
                  /\ notification_log[Len(notification_log)].notification_type = "level_2"

\* level_2 sent to a user 30 minutes after a level_1 row of the same user,
\* a row of the other user in between
C26_Witness ==
    /\ chk["api"].pc = "done"
    /\ chk["api"].status = "notification_sent"
    /\ chk["api"].notification_type = "level_2"
    /\ Len(notification_log) = 3
    /\ notification_log[1].id = chk["api"].user
    /\ notification_log[1].notification_type = "level_1"
    /\ notification_log[2].id # chk["api"].user
    /\ notification_log[3].id = chk["api"].user
    /\ notification_log[3].notification_type = "level_2"
    /\ notification_log[3].sent_at - notification_log[1].sent_at = HalfHour


(* Claims about evaluations run while sessions come and go *)

\* C24: no step of check_user_stress or of check_all_users changes table
\* "report", whatever the sessions are doing in between; the only table such
\* a step writes is notification_log, by appending the row of an evaluation
\* that has decided to send.
C24_ChecksLeaveCounter ==
    [][(chk' # chk \/ sweep' # sweep) =>
          /\ report' = report
          /\ \/ notification_log' = notification_log
             \/ \E c \in Callers : AppendsFor(c)]_vars

\* an evaluation has logged a notification for the counter 6 that a session
\* still under way has just written
C24_Witness ==
    \E c \in Callers :
        /\ chk[c].pc = "return"
        /\ chk[c].user = sess["s1"].user
        /\ chk[c].stress_day = 6
        /\ sess["s1"].pc = "process_user"
        /\ sess["s1"].current_stress_day = 4
        /\ sess["s1"].new_stress_day = 6
        /\ report[chk[c].user].stress_day = 6
        /\ notification_log[Len(notification_log)].stress_day = 6

\* C30 as stated: once a Happy session of a user has completed, an evaluation
\* that starts for that user, the user holding a report row, while fewer than
\* three further sessions with a mood that is not happy and stress_level >= 3
\* have completed ends at once with no notification and appends nothing.
C30_ThreeCompleted ==
    [][\A c \in Callers :
          (/\ chk[c].pc = "idle" /\ chk'[c].pc # "idle"
           /\ chk'[c].user \in DOMAIN report
           /\ hist[chk'[c].user].done \in 0..2)
          => /\ chk'[c].pc = "done"
             /\ chk'[c].status = "ok"
             /\ notification_log' = notification_log]_vars

\* C30: once a Happy session of a user has completed, an evaluation that
\* starts for that user, the user holding a report row, while fewer than
\* three further sessions with a mood that is not happy and stress_level >= 3
\* have made their process_stress_tracking call (the last of them may still
\* be running) ends at once with no notification and appends nothing.
C30_ThreeWritten ==
    [][\A c \in Callers :
          (/\ chk[c].pc = "idle" /\ chk'[c].pc # "idle"
           /\ chk'[c].user \in DOMAIN report
           /\ hist[chk'[c].user].written \in 0..2)
          => /\ chk'[c].pc = "done"
             /\ chk'[c].status = "ok"
             /\ notification_log' = notification_log]_vars

\* an evaluation has answered ok for the counter 4 that two such sessions
\* left after a Happy session
C30_Witness ==
    /\ chk["api"].pc = "done"
    /\ chk["api"].status = "ok"
    /\ chk["api"].stress_day = 4
    /\ hist[chk["api"].user].written = 2
    /\ hist[chk["api"].user].done = 2
    /\ notification_log = <<>>

====
